---- MODULE Spec2Model ----
(***************************************************************************)
(* State-machine model of prepare_testing.py (Leidokos-Testing): the       *)
(* construction of the TestNode tree from a directory hierarchy, the       *)
(* validity check, the test-name uniqueness check, the determination of    *)
(* the unique firmware builds and the export.                              *)
(*                                                                         *)
(* Text is modelled as a sequence of tokens; a token stands for a fixed    *)
(* non-empty piece of text and no token is a prefix of another, so that    *)
(* concatenating token sequences is concatenating the texts they stand     *)
(* for.  Python's None is the empty sequence for text-valued fields (the   *)
(* code never stores an empty text there: every assignment is guarded by   *)
(* the truth value of the text) and an unset record for objects.           *)
(***************************************************************************)
EXTENDS Integers, Sequences, FiniteSets, TLC

\* ------------------------------------------------------------------ bounds

\* The largest number of TestNode objects of one run (the root included).
MaxNodes == 4

\* ------------------------------------------------------------------ text

None == <<>>

\* str(x) of a text-valued field that may be None.
PyStr(x) == IF x = None THEN <<"None">> ELSE x

\* The tokens in ascending order; the order of texts is the lexicographic one.
Alphabet == <<".", "/", "None", "__NONE__", "a", "b", "c", "core", "plugin">>

Rank(t) == CHOOSE i \in 1..Len(Alphabet) : Alphabet[i] = t

RECURSIVE TextLess(_, _)
TextLess(s, t) ==
    IF t = <<>> THEN FALSE
    ELSE IF s = <<>> THEN TRUE
    ELSE IF Head(s) = Head(t) THEN TextLess(Tail(s), Tail(t))
    ELSE Rank(Head(s)) < Rank(Head(t))

\* The names of the files and directories of the testing directory structure.
external_specification_subdir_name == "__external__"
test_trigger_basename == "__test__"
firmware_sketch_pattern == "sketch.ino"
test_driver_pattern == "driver.py"
test_specification_pattern == "specification.yaml"

\* os.path.join(path, name)
PathJoin(path, name) == path \o <<"/", name>>

\* The whole path: the mutant of Basename.
WholePath(path) == path

\* os.path.basename(path)
Basename(path) == <<path[Len(path)]>>

\* ------------------------------------------------------------------ entities

\* Property(value) after attach: the value and the path of the node it was
\* attached to.  Two Property objects of one attribute are the same object
\* iff they were attached at the same node, because a node creates at most
\* one Property per attribute.
NoProperty == [set |-> FALSE, value |-> None, path |-> None]
Property(value, node) == [set |-> TRUE, value |-> value, path |-> node.path]

\* File(filename) after attach.
NoFile == [set |-> FALSE, filename |-> None, path |-> None]
File(filename, node) == [set |-> TRUE, filename |-> filename, path |-> node.path]

\* hashlib.sha256 of the bytes fed to it, taken as free of collisions: the
\* digest is the text it was computed from.
Sha256(bytes) == [sha256 |-> bytes]

\* KaleidoscopeModule with the three fields of a module of the yaml
\* specification; a missing field is stored as the text "__NONE__".
KaleidoscopeModule(module_dict) ==
    [url    |-> IF module_dict.url = None THEN <<"__NONE__">> ELSE module_dict.url,
     commit |-> IF module_dict.commit = None THEN <<"__NONE__">> ELSE module_dict.commit,
     name   |-> IF module_dict.name = None THEN <<"__NONE__">> ELSE module_dict.name]

\* KaleidoscopeModule.getDigest
ModuleGetDigest(m) == Sha256(PyStr(m.url) \o PyStr(m.commit) \o PyStr(m.name))

\* ------------------------------------------------------------------ FirmwareBuild

\* FirmwareBuild(): set_id = 0 stands for the attribute not being set.
FirmwareBuild ==
    [modules |-> <<>>, module_digests |-> <<>>, firmware_sketch |-> NoFile,
     boards_url |-> None, boards_commit |-> None, path |-> None, set_id |-> 0]

\* FirmwareBuild.checkValidity
checkValidity(fb) == fb.firmware_sketch.set

\* FirmwareBuild.containsModule
containsModule(fb, new_module) ==
    \E i \in 1..Len(fb.module_digests) : fb.module_digests[i] = ModuleGetDigest(new_module)

\* FirmwareBuild.clone: a new object with copies of the two lists.
clone(fb) ==
    [modules |-> fb.modules, module_digests |-> fb.module_digests,
     firmware_sketch |-> fb.firmware_sketch,
     boards_url |-> fb.boards_url, boards_commit |-> fb.boards_commit,
     path |-> None, set_id |-> 0]

\* The module is appended whatever its name: the mutant of addModule.
appendModule(fb, new_module) ==
    [fb EXCEPT !.modules = Append(@, new_module),
               !.module_digests = Append(@, ModuleGetDigest(new_module))]

\* FirmwareBuild.addModule
addModule(fb, new_module) ==
    LET new_digest == ModuleGetDigest(new_module)
        same == {i \in 1..Len(fb.modules) :
                    new_module.name # None /\ fb.modules[i].name = new_module.name}
    IN  IF same # {}
        THEN LET i == CHOOSE j \in same : \A k \in same : j <= k
             IN  [fb EXCEPT !.modules[i] = new_module, !.module_digests[i] = new_digest]
        ELSE [fb EXCEPT !.modules = Append(@, new_module),
                        !.module_digests = Append(@, new_digest)]

\* The sorted list of the digests of the modules.
SortedModuleDigests(modules) ==
    SortSeq([i \in 1..Len(modules) |-> ModuleGetDigest(modules[i])],
            LAMBDA x, y : TextLess(x.sha256, y.sha256))

\* FirmwareBuild.getDigest.  Every module digest is a hexdigest of 64
\* characters, so the list of them is recovered from the bytes hashed; the
\* three texts that follow are hashed one after the other.
FirmwareBuildGetDigest(fb) ==
    Sha256([module_digests |-> SortedModuleDigests(fb.modules),
            rest |-> PyStr(fb.boards_url) \o PyStr(fb.boards_commit)
                        \o fb.firmware_sketch.filename])

\* ------------------------------------------------------------------ directories

\* A directory of the testing tree as the script sees it: the names of its
\* files (os.walk's files), the names of those of its subdirectories that
\* are no nodes of the tree, and what yaml.load gives for its specification
\* file.

NoYaml ==
    [malformed |-> FALSE, name |-> None, description |-> None,
     driver_cmd_line_flags |-> None, boards_url |-> None, boards_commit |-> None,
     modules |-> <<>>]

\* What is below a subdirectory __external__: the names of its files, the
\* number of levels of directories nested in it, and whether os.walk lists
\* it before or after the other subdirectories of its directory.
NoExternal == [files |-> {}, depth |-> 0, first |-> FALSE]

Dir(files, yaml) ==
    [files |-> files, dirs |-> {}, yaml |-> yaml, external |-> NoExternal]

\* The directory with a subdirectory __external__.
WithExternal(d, external) ==
    [d EXCEPT !.dirs = {external_specification_subdir_name}, !.external = external]

\* os.path.isdir(os.path.join(path, name))
isdir(name, d) == name \in d.dirs

\* find_file(name, path): only the files of the directory are searched.
find_file(name, d) == name \in d.files

\* find_unique_file(pattern, path, descr): the first match of the pattern;
\* a directory of the model holds at most one file per pattern.
find_unique_file(pattern, d) == pattern \in d.files

\* ------------------------------------------------------------------ TestNode

\* TestNode.__init__ before setup().  parent = 0 is None; firmware_build and
\* unique_firmware_build are indices into builds, 0 being None (or not set).
NewTestNode(path, parent) ==
    [path |-> path, parent |-> parent, children |-> <<>>,
     python_driver |-> NoFile,
     name |-> NoProperty, description |-> NoProperty,
     driver_cmd_line_flags |-> NoProperty,
     boards_url |-> NoProperty, boards_commit |-> NoProperty,
     is_test_target |-> FALSE,
     firmware_build |-> 0, has_dedicated_firmware |-> FALSE,
     unique_firmware_build |-> 0]

\* The state a node's setup works on: the node under construction, the
\* FirmwareBuild objects and the error that ended the run ("" for none).
Ctx(node, fbs) == [node |-> node, builds |-> fbs, error |-> ""]

Fail(c, error) == IF c.error = "" THEN [c EXCEPT !.error = error] ELSE c

\* The clone without the flag: the mutant of cloneFirmwareBuild.
cloneWithoutFlag(c) ==
    LET new_self == [clone(c.builds[c.node.firmware_build]) EXCEPT !.path = c.node.path]
    IN  [c EXCEPT !.builds = Append(@, new_self),
                  !.node.firmware_build = Len(c.builds) + 1]

\* TestNode.cloneFirmwareBuild
cloneFirmwareBuild(c) ==
    LET new_self == [clone(c.builds[c.node.firmware_build]) EXCEPT !.path = c.node.path]
    IN  [c EXCEPT !.builds = Append(@, new_self),
                  !.node.firmware_build = Len(c.builds) + 1,
                  !.node.has_dedicated_firmware = TRUE]

\* No clone is made: the mutant of conditionallyCloneFirmwareBuild.
neverCloneFirmwareBuild(c) == c

\* TestNode.conditionallyCloneFirmwareBuild
conditionallyCloneFirmwareBuild(c) ==
    IF ~c.node.has_dedicated_firmware THEN cloneFirmwareBuild(c) ELSE c

\* TestNode.useParentEntity
useParentEntity(c, tree, attr) ==
    IF c.node.parent # 0
    THEN [c EXCEPT !.node[attr] = tree[c.node.parent][attr]]
    ELSE c

\* TestNode.findPythonDriver
findPythonDriver(c, tree, source_path, d) ==
    IF find_unique_file(test_driver_pattern, d)
    THEN [c EXCEPT !.node.python_driver =
                       File(PathJoin(source_path, test_driver_pattern), c.node)]
    ELSE useParentEntity(c, tree, "python_driver")

\* TestNode.findFirmwareSketch
findFirmwareSketch(c, source_path, d) ==
    IF find_unique_file(firmware_sketch_pattern, d)
    THEN LET firmware_sketch_file == PathJoin(source_path, firmware_sketch_pattern)
             fb == c.builds[c.node.firmware_build]
         IN  IF ~fb.firmware_sketch.set \/ ~(fb.firmware_sketch.filename = firmware_sketch_file)
             THEN LET c1 == conditionallyCloneFirmwareBuild(c)
                  IN  [c1 EXCEPT !.builds[c1.node.firmware_build].firmware_sketch =
                                     File(firmware_sketch_file, c1.node)]
             ELSE c
    ELSE c

\* TestNode.findTestTrigger
findTestTrigger(c, d) ==
    IF find_file(test_trigger_basename, d)
    THEN [c EXCEPT !.node.is_test_target = TRUE]
    ELSE c

\* parseYAMLDefinitions, lines 567-586: boards_url and boards_commit.  When
\* the build's field is set, the second operand of "or" is evaluated and
\* reads firmware_sketch.<field>, an attribute that neither None nor a
\* FirmwareSketch has: AttributeError.
setBoardsField(c, field, new_value) ==
    IF new_value = None THEN c
    ELSE IF c.builds[c.node.firmware_build][field] = None
         THEN LET c1 == conditionallyCloneFirmwareBuild(c)
              IN  [c1 EXCEPT !.builds[c1.node.firmware_build][field] = new_value]
         ELSE Fail(c, "AttributeError")

\* parseYAMLDefinitions, lines 588-610: the loop over the modules.
RECURSIVE addModules(_, _)
addModules(c, new_modules) ==
    IF new_modules = <<>> THEN c
    ELSE LET new_module == KaleidoscopeModule(Head(new_modules))
             c1 == IF ~containsModule(c.builds[c.node.firmware_build], new_module)
                   THEN LET c2 == conditionallyCloneFirmwareBuild(c)
                        IN  [c2 EXCEPT !.builds[c2.node.firmware_build] =
                                           addModule(@, new_module)]
                   ELSE c
         IN  addModules(c1, Tail(new_modules))

\* parseYAMLDefinitions, lines 552-565: a Property per key that is present.
setProperty(c, attr, new_value) ==
    IF new_value # None
    THEN [c EXCEPT !.node[attr] = Property(new_value, c.node)]
    ELSE c

\* TestNode.parseYAMLDefinitions
parseYAMLDefinitions(c, d) ==
    IF ~find_unique_file(test_specification_pattern, d) THEN c
    ELSE IF d.yaml.malformed THEN c
    ELSE LET my_yaml == d.yaml
             c1 == setProperty(c, "name", my_yaml.name)
             c2 == setProperty(c1, "description", my_yaml.description)
             c3 == setProperty(c2, "driver_cmd_line_flags", my_yaml.driver_cmd_line_flags)
             c4 == setBoardsField(c3, "boards_url", my_yaml.boards_url)
             c5 == IF c4.error # "" THEN c4
                   ELSE setBoardsField(c4, "boards_commit", my_yaml.boards_commit)
         IN  IF c5.error # "" THEN c5 ELSE addModules(c5, my_yaml.modules)

\* Every node is flagged as having its own build: the mutant of
\* setupFirmwareBuild.
setupFlaggedFirmwareBuild(c, tree) ==
    IF c.node.parent # 0
    THEN [c EXCEPT !.node.firmware_build = tree[c.node.parent].firmware_build,
                   !.node.has_dedicated_firmware = TRUE]
    ELSE [c EXCEPT !.builds = Append(@, [FirmwareBuild EXCEPT !.path = c.node.path]),
                   !.node.firmware_build = Len(c.builds) + 1,
                   !.node.has_dedicated_firmware = TRUE]

\* TestNode.setup, lines 630-640: the build of the node before any search.
setupFirmwareBuild(c, tree) ==
    IF c.node.parent # 0
    THEN [c EXCEPT !.node.firmware_build = tree[c.node.parent].firmware_build,
                   !.node.has_dedicated_firmware = FALSE]
    ELSE [c EXCEPT !.builds = Append(@, [FirmwareBuild EXCEPT !.path = c.node.path]),
                   !.node.firmware_build = Len(c.builds) + 1,
                   !.node.has_dedicated_firmware = TRUE]

\* TestNode.setup, lines 647-689: the external specification.  all_files are
\* the files of the path; all_files(1) calls a list: TypeError.
externalError(d) ==
    IF ~find_file(external_specification_subdir_name, d) THEN ""
    ELSE IF ~isdir(external_specification_subdir_name, d)
         THEN "SystemExit: external specification is not a path"
    ELSE IF Cardinality(d.files) > 2 THEN "SystemExit: additional files"
    ELSE IF Cardinality(d.files) = 2 THEN "TypeError"
    ELSE ""

\* TestNode.setup
setup(c0, tree, d) ==
    LET c1 == setupFirmwareBuild(c0, tree)
        error == externalError(d)
        source_path == IF find_file(external_specification_subdir_name, d)
                       THEN PathJoin(c0.node.path, external_specification_subdir_name)
                       ELSE c0.node.path
        c2 == useParentEntity(c1, tree, "description")
        c3 == useParentEntity(c2, tree, "driver_cmd_line_flags")
        c4 == useParentEntity(c3, tree, "boards_url")
        c5 == useParentEntity(c4, tree, "boards_commit")
        c6 == useParentEntity(c5, tree, "firmware_build")
        c7 == findPythonDriver(c6, tree, source_path, d)
        c8 == findFirmwareSketch(c7, source_path, d)
        c9 == parseYAMLDefinitions(c8, d)
        c10 == findTestTrigger(c9, d)
    IN  IF error # "" THEN Fail(c1, error)
        ELSE IF c9.error # "" THEN c9
        ELSE IF ~c10.node.name.set
             THEN [c10 EXCEPT !.node.name = Property(Basename(c10.node.path), c10.node)]
             ELSE c10

\* TestNode(path, parent): the object after __init__, or the error raised.
TestNode(path, parent, tree, fbs, d) ==
    setup(Ctx(NewTestNode(path, parent), fbs), tree, d)

\* ------------------------------------------------------------------ the tree

\* TestNode.generatesTests
generatesTests(node) == node.is_test_target \/ Len(node.children) = 0

\* The names compared by value: the mutant of generateGlobalName.
RECURSIVE generateGlobalNameByValue(_, _)
generateGlobalNameByValue(tree, n) ==
    IF tree[n].parent # 0
    THEN LET parent_name == generateGlobalNameByValue(tree, tree[n].parent)
         IN  IF ~(tree[n].name.value = tree[tree[n].parent].name.value)
             THEN parent_name \o <<".">> \o tree[n].name.value
             ELSE parent_name
    ELSE tree[n].name.value

\* TestNode.generateGlobalName; "is" compares the two Property objects.
RECURSIVE generateGlobalName(_, _)
generateGlobalName(tree, n) ==
    IF tree[n].parent # 0
    THEN LET parent_name == generateGlobalName(tree, tree[n].parent)
         IN  IF ~(tree[n].name = tree[tree[n].parent].name)
             THEN parent_name \o <<".">> \o tree[n].name.value
             ELSE parent_name
    ELSE tree[n].name.value

\* The checks of one node in recursivelyCheckValidity: what is reported.
nodeReports(node, fbs) ==
    IF generatesTests(node)
    THEN {r \in {"path", "name", "description", "python_driver",
                 "firmware_build", "firmware_sketch"} :
            \/ r = "path" /\ node.path = None
            \/ r = "name" /\ ~node.name.set
            \/ r = "description" /\ ~node.description.set
            \/ r = "python_driver" /\ ~node.python_driver.set
            \/ r = "firmware_build" /\ node.firmware_build = 0
            \/ r = "firmware_sketch" /\ ~checkValidity(fbs[node.firmware_build])}
    ELSE {}

\* TestNode.recursivelyCheckValidity: the result, the nodes visited in the
\* order of the visit and the failures written, each with its node.
RECURSIVE recursivelyCheckValidity(_, _, _)
RECURSIVE checkChildren(_, _, _, _)

\* The loop ends at the first invalid child: the mutant of checkChildren.
RECURSIVE checkChildrenUntilInvalid(_, _, _, _)
checkChildrenUntilInvalid(tree, fbs, children, acc) ==
    IF children = <<>> \/ ~acc.is_valid THEN acc
    ELSE LET r == recursivelyCheckValidity(tree, fbs, Head(children))
         IN  checkChildrenUntilInvalid(tree, fbs, Tail(children),
                 [is_valid |-> acc.is_valid /\ r.is_valid,
                  visited  |-> acc.visited \o r.visited,
                  reports  |-> acc.reports \cup r.reports])

\* The loop over the children, lines 464-465.
checkChildren(tree, fbs, children, acc) ==
    IF children = <<>> THEN acc
    ELSE LET r == recursivelyCheckValidity(tree, fbs, Head(children))
         IN  checkChildren(tree, fbs, Tail(children),
                 [is_valid |-> acc.is_valid /\ r.is_valid,
                  visited  |-> acc.visited \o r.visited,
                  reports  |-> acc.reports \cup r.reports])

recursivelyCheckValidity(tree, fbs, n) ==
    LET mine == nodeReports(tree[n], fbs)
    IN  checkChildren(tree, fbs, tree[n].children,
            [is_valid |-> mine = {},
             visited  |-> <<n>>,
             reports  |-> {<<n, r>> : r \in mine}])

\* No name is found twice: the mutant of firstDuplicateName.
noDuplicateName(tree) == 0

\* check_test_name_uniqueness: the index in test_nodes_by_path.values() of
\* the first node whose global name is already in test_name_to_test_node,
\* 0 when the loop ends without sys.exit.
firstDuplicateName(tree) ==
    LET dup == {j \in 1..Len(tree) :
                  \E k \in 1..(j - 1) :
                      generateGlobalName(tree, k) = generateGlobalName(tree, j)}
    IN  IF dup = {} THEN 0 ELSE CHOOSE j \in dup : \A k \in dup : j <= k

\* unique_firmware_builds_by_digest.get(my_digest): 0 for None.
getUnique(by_digest, my_digest) ==
    IF \E k \in 1..Len(by_digest) : by_digest[k].digest = my_digest
    THEN (by_digest[CHOOSE k \in 1..Len(by_digest) : by_digest[k].digest = my_digest]).build
    ELSE 0

\* ------------------------------------------------------------------ inputs

\* The names os.walk gives the subdirectories of a directory, in its order.
DirNames == <<"x", "y", "z", "w", "v">>

Yaml(name, description) == [NoYaml EXCEPT !.name = name, !.description = description]

YamlModules(modules) == [NoYaml EXCEPT !.modules = modules]

YamlBoards(boards_url, boards_commit) ==
    [NoYaml EXCEPT !.boards_url = boards_url, !.boards_commit = boards_commit]

Module(url, commit, name) == [url |-> url, commit |-> commit, name |-> name]

SpecFile == {test_specification_pattern}

EmptyDir == Dir({}, NoYaml)
TriggerDir == Dir({test_trigger_basename}, NoYaml)
DriverDir == Dir({test_driver_pattern}, NoYaml)
SketchDir == Dir({firmware_sketch_pattern}, NoYaml)
DescriptionDir == Dir(SpecFile, Yaml(None, <<"d">>))
FullDir == Dir({test_driver_pattern, firmware_sketch_pattern} \cup SpecFile,
               Yaml(None, <<"d">>))
CoreModule == Module(<<"a">>, None, <<"core">>)
PluginModule == Module(<<"b">>, None, <<"plugin">>)
FullCoreDir == Dir({test_driver_pattern, firmware_sketch_pattern} \cup SpecFile,
                   [Yaml(<<"root">>, <<"d">>) EXCEPT !.modules = <<CoreModule>>])

\* Directories that differ in what a test needs: description, driver, sketch.
ValidityCatalogue ==
    {EmptyDir, TriggerDir, DriverDir, SketchDir, DescriptionDir}

\* Directories that differ in the name they give.
NameCatalogue ==
    {FullDir, EmptyDir, TriggerDir, Dir(SpecFile, Yaml(<<"x">>, None))}

\* Directories that differ in the modules they give.
ModuleCatalogue ==
    {FullCoreDir, EmptyDir, TriggerDir,
     Dir(SpecFile, YamlModules(<<CoreModule, PluginModule>>)),
     Dir(SpecFile, YamlModules(<<PluginModule, CoreModule>>))}

\* Directories that differ in the boards and the sketch they give.
BoardsCatalogue ==
    {FullDir, EmptyDir, SketchDir,
     Dir(SpecFile, YamlBoards(<<"a">>, <<"b", "c">>)),
     Dir(SpecFile, YamlBoards(<<"a", "b">>, <<"c">>))}

\* Directories that differ in the fields of one module.
ModuleFieldCatalogue ==
    {FullDir, EmptyDir,
     Dir(SpecFile, YamlModules(<<Module(<<"a">>, <<"b", "c">>, <<"core">>)>>)),
     Dir(SpecFile, YamlModules(<<Module(<<"a", "b">>, <<"c">>, <<"core">>)>>))}

\* __external__ as a file; as a subdirectory that is alone and holds a driver
\* and a sketch, that is next to a driver file, that is next to the test
\* trigger; and with a directory in it that has a subdirectory, listed
\* before or after the other subdirectories.
ExternalFileDir == Dir({external_specification_subdir_name}, NoYaml)
ExternalAloneDir ==
    WithExternal(EmptyDir, [files |-> {test_driver_pattern, firmware_sketch_pattern},
                            depth |-> 1, first |-> FALSE])
ExternalStrayDir == WithExternal(DriverDir, NoExternal)
ExternalTriggerDir ==
    WithExternal(TriggerDir, [files |-> {test_driver_pattern}, depth |-> 0,
                              first |-> FALSE])
ExternalDeepDir(first) ==
    WithExternal(EmptyDir, [files |-> {}, depth |-> 2, first |-> first])

\* Directories that differ in their subdirectory __external__.
ExternalCatalogue ==
    {FullDir, ExternalFileDir, ExternalAloneDir, ExternalStrayDir, ExternalTriggerDir,
     ExternalDeepDir(TRUE), ExternalDeepDir(FALSE)}

\* Directories that differ in what they override of the build of the parent:
\* nothing, a module that the build of the root has, everything at once, or
\* boards_url alone.
OverrideCatalogue ==
    {FullCoreDir, EmptyDir,
     Dir(SpecFile, YamlModules(<<CoreModule>>)),
     Dir({firmware_sketch_pattern} \cup SpecFile,
         [YamlBoards(<<"a">>, <<"b">>) EXCEPT !.modules = <<PluginModule>>]),
     Dir(SpecFile, YamlBoards(<<"a">>, None)),
     Dir(SpecFile, YamlBoards(<<"b">>, None))}

\* Directories that differ in the names and urls of their modules: a module
\* named as one of the parent's with another url, and two modules without a
\* name.
ReplaceCatalogue ==
    {FullDir, EmptyDir,
     Dir(SpecFile, YamlModules(<<CoreModule, PluginModule>>)),
     Dir(SpecFile, YamlModules(<<Module(<<"c">>, None, <<"core">>)>>)),
     Dir(SpecFile, YamlModules(<<Module(<<"a">>, None, None), Module(<<"b">>, None, None)>>))}

\* The catalogues whose trees have up to MaxNodes nodes; the trees of the
\* others have one node less.
LargeCatalogues == {ValidityCatalogue, NameCatalogue, ModuleFieldCatalogue}

Catalogues ==
    LargeCatalogues \cup {ModuleCatalogue, BoardsCatalogue, ExternalCatalogue,
                          OverrideCatalogue, ReplaceCatalogue}

MaxNodesOf(cat) == IF cat \in LargeCatalogues THEN MaxNodes ELSE MaxNodes - 1

\* ------------------------------------------------------------------ state

VARIABLES
    catalogue,      \* the kinds of directory the testing tree is made of
    pc,             \* the position of main()
    nodes,          \* test_nodes_by_path.values(), in the order of insertion
    directories,    \* the directory at the path of each node
    builds,         \* the FirmwareBuild objects, a reference being an index
    dirpath,        \* the node of os.walk's current directory, 0 for none
    pending,        \* the nodes of the directories os.walk has yet to yield
    by_digest,      \* unique_firmware_builds_by_digest, in the order of insertion
    set_id,         \* determine_unique_firmware_builds' set_id
    i,              \* the index of the node a loop over the nodes is at
    output,         \* what has been written to the cmake file
    error,          \* what ended the run, "" for nothing
    orphan          \* the TestNode constructed with no parent below __external__

vars == <<catalogue, pc, nodes, directories, builds, dirpath, pending, by_digest, set_id, i,
          output, error, orphan>>

\* No TestNode other than the root was constructed without a parent.
NoTestNode == [set |-> FALSE, node |-> NewTestNode(None, 0)]

NoOutput == [opened |-> FALSE, closed |-> FALSE, firmware_builds |-> <<>>, tests |-> <<>>]

Init ==
    /\ catalogue \in Catalogues
    /\ pc = "root"
    /\ nodes = <<>>
    /\ directories = <<>>
    /\ builds = <<>>
    /\ dirpath = 0
    /\ pending = <<>>
    /\ by_digest = <<>>
    /\ set_id = 0
    /\ i = 0
    /\ output = NoOutput
    /\ error = ""
    /\ orphan = NoTestNode

\* The run ends with sys.exit or an exception that nothing catches.
Abort(why) ==
    /\ pc' = "aborted"
    /\ error' = why

\* ------------------------------------------------------------------ setup_testing_tree

\* root_node = TestNode(testing_tree_root), line 723-725
CreateRoot ==
    /\ pc = "root"
    /\ \E d \in catalogue :
         LET c == TestNode(<<"root">>, 0, nodes, builds, d)
         IN  /\ builds' = c.builds
             /\ IF c.error # ""
                THEN /\ Abort(c.error)
                     /\ UNCHANGED <<nodes, directories, dirpath>>
                ELSE /\ nodes' = <<c.node>>
                     /\ directories' = <<d>>
                     /\ dirpath' = 1
                     /\ pc' = "walk"
                     /\ error' = ""
    /\ UNCHANGED <<orphan, catalogue, pending, by_digest, set_id, i, output>>

\* One round of the loop over dirs, lines 746-759: a node for the next
\* subdirectory of the current directory.
CreateChild ==
    /\ pc = "walk"
    /\ dirpath # 0
    /\ Len(nodes) < MaxNodesOf(catalogue)
    /\ Len(nodes[dirpath].children) < Len(DirNames)
    /\ \E d \in catalogue :
         LET my_dir == DirNames[Len(nodes[dirpath].children) + 1]
             my_abs_dir == PathJoin(nodes[dirpath].path, my_dir)
             c == TestNode(my_abs_dir, dirpath, nodes, builds, d)
             new_test_node == Len(nodes) + 1
         IN  /\ builds' = c.builds
             /\ IF c.error # ""
                THEN /\ Abort(c.error)
                     /\ UNCHANGED <<nodes, directories>>
                ELSE /\ nodes' = Append([nodes EXCEPT ![dirpath].children =
                                                   Append(@, new_test_node)], c.node)
                     /\ directories' = Append(directories, d)
                     /\ UNCHANGED <<pc, error>>
    /\ UNCHANGED <<orphan, catalogue, dirpath, pending, by_digest, set_id, i, output>>

\* The directories os.walk has yet to yield once the current one is done:
\* top-down, the subdirectories of a directory before its next sibling.
\* A subdirectory __external__ is walked as well; it stands in the list as
\* the negative of its node, and only when a directory in it has a
\* subdirectory, as nothing is done for the others (lines 734-746).
toWalk ==
    IF dirpath = 0 THEN pending
    ELSE LET external == IF directories[dirpath].external.depth >= 2
                         THEN <<-dirpath>> ELSE <<>>
         IN  IF directories[dirpath].external.first
             THEN external \o nodes[dirpath].children \o pending
             ELSE nodes[dirpath].children \o external \o pending

\* The loop over os.walk, line 730: the next directory.
NextDir ==
    /\ pc = "walk"
    /\ toWalk # <<>>
    /\ Head(toWalk) > 0
    /\ dirpath' = Head(toWalk)
    /\ pending' = Tail(toWalk)
    /\ UNCHANGED <<orphan, catalogue, pc, nodes, directories, builds, by_digest, set_id, i, output,
                   error>>

\* The loop over os.walk at a directory two levels below __external__, whose
\* path is not in test_nodes_by_path: my_parent_test_node is None, the
\* TestNode of its first subdirectory is constructed without a parent, and
\* my_parent_test_node.children raises AttributeError (lines 744-755).
WalkExternal ==
    /\ pc = "walk"
    /\ toWalk # <<>>
    /\ Head(toWalk) < 0
    /\ LET my_parent_test_node == 0
           dirpath_external ==
               PathJoin(PathJoin(nodes[-Head(toWalk)].path,
                                 external_specification_subdir_name), DirNames[1])
           my_abs_dir == PathJoin(dirpath_external, DirNames[1])
           c == TestNode(my_abs_dir, my_parent_test_node, nodes, builds, EmptyDir)
       IN  /\ builds' = c.builds
           /\ orphan' = [set |-> TRUE, node |-> c.node]
           /\ Abort("AttributeError: None.children")
    /\ UNCHANGED <<catalogue, nodes, directories, dirpath, pending, by_digest, set_id, i,
                   output>>

\* The end of the walk and the validity check, lines 764-771.
CheckValidity ==
    /\ pc = "walk"
    /\ toWalk = <<>>
    /\ dirpath' = 0
    /\ IF recursivelyCheckValidity(nodes, builds, 1).is_valid
       THEN /\ pc' = "check_test_name_uniqueness"
            /\ error' = ""
       ELSE Abort("SystemExit: invalid testing setup")
    /\ UNCHANGED <<orphan, catalogue, nodes, directories, builds, pending, by_digest, set_id, i,
                   output>>

\* ------------------------------------------------------------------ check_test_name_uniqueness

CheckTestNameUniqueness ==
    /\ pc = "check_test_name_uniqueness"
    /\ IF firstDuplicateName(nodes) # 0
       THEN /\ Abort("SystemExit: same name")
            /\ UNCHANGED <<set_id, i>>
       ELSE /\ pc' = "unique_builds"
            /\ set_id' = 1
            /\ i' = 1
            /\ error' = ""
    /\ UNCHANGED <<orphan, catalogue, nodes, directories, builds, dirpath, pending, by_digest,
                   output>>

\* ------------------------------------------------------------------ determine_unique_firmware_builds

\* A set_id that is used again: the mutant of nextSetId.
sameSetId(id) == id

\* set_id = set_id + 1, line 816
nextSetId(id) == id + 1

\* One round of the first loop, lines 806-816.
UniqueBuild ==
    /\ pc = "unique_builds"
    /\ LET test_node == nodes[i]
           my_digest == FirmwareBuildGetDigest(builds[test_node.firmware_build])
       IN  IF /\ generatesTests(test_node)
              /\ test_node.has_dedicated_firmware
              /\ getUnique(by_digest, my_digest) = 0
           THEN /\ builds' = [builds EXCEPT ![test_node.firmware_build].set_id = set_id]
                /\ by_digest' = Append(by_digest, [digest |-> my_digest,
                                                   build |-> test_node.firmware_build])
                /\ set_id' = nextSetId(set_id)
           ELSE UNCHANGED <<builds, by_digest, set_id>>
    /\ IF i < Len(nodes)
       THEN /\ i' = i + 1
            /\ pc' = pc
       ELSE /\ i' = 1
            /\ pc' = "assign_builds"
    /\ UNCHANGED <<orphan, catalogue, nodes, directories, dirpath, pending, output, error>>

\* One round of the second loop, lines 820-826.
AssignBuild ==
    /\ pc = "assign_builds"
    /\ LET test_node == nodes[i]
       IN  IF generatesTests(test_node)
           THEN nodes' = [nodes EXCEPT ![i].unique_firmware_build =
                            getUnique(by_digest,
                                FirmwareBuildGetDigest(builds[test_node.firmware_build]))]
           ELSE UNCHANGED nodes
    /\ IF i < Len(nodes)
       THEN /\ i' = i + 1
            /\ pc' = pc
       ELSE /\ i' = 0
            /\ pc' = "export"
    /\ UNCHANGED <<orphan, catalogue, directories, builds, dirpath, pending, by_digest, set_id,
                   output, error>>

\* ------------------------------------------------------------------ export_as_cmake

\* The ids of the builds in the order of sorted(..., key = set_id).
RECURSIVE buildsBySetId(_, _)
buildsBySetId(entries, id) ==
    IF \E k \in 1..Len(entries) : builds[entries[k].build].set_id = id
    THEN <<id>> \o buildsBySetId(entries, id + 1)
    ELSE <<>>

\* open(cmake_filename, "w") and the firmware builds, lines 845-868.
ExportBuilds ==
    /\ pc = "export"
    /\ output' = [output EXCEPT !.opened = TRUE,
                                !.firmware_builds = buildsBySetId(by_digest, 1)]
    /\ pc' = "export_tests"
    /\ i' = 1
    /\ UNCHANGED <<orphan, catalogue, nodes, directories, builds, dirpath, pending, by_digest,
                   set_id, error>>

\* One round of the loop over the tests, lines 877-912, and the close.
ExportTest ==
    /\ pc = "export_tests"
    /\ LET test_node == nodes[i]
       IN  IF ~generatesTests(test_node)
           THEN /\ UNCHANGED output
                /\ IF i < Len(nodes)
                   THEN /\ i' = i + 1
                        /\ UNCHANGED <<pc, error>>
                   ELSE /\ i' = 0
                        /\ pc' = "done"
                        /\ error' = ""
           ELSE IF test_node.unique_firmware_build = 0
           THEN /\ Abort("AttributeError")
                /\ UNCHANGED <<output, i>>
           ELSE /\ IF i < Len(nodes)
                   THEN /\ i' = i + 1
                        /\ UNCHANGED <<pc, error>>
                   ELSE /\ i' = 0
                        /\ pc' = "done"
                        /\ error' = ""
                /\ output' = [output EXCEPT
                      !.tests = Append(@,
                          [test_id |-> Len(output.tests) + 1,
                           test_name |-> generateGlobalName(nodes, i),
                           firmware_build_id |->
                               builds[test_node.unique_firmware_build].set_id]),
                      !.closed = (i = Len(nodes))]
    /\ UNCHANGED <<orphan, catalogue, nodes, directories, builds, dirpath, pending, by_digest,
                   set_id>>

Next ==
    \/ CreateRoot
    \/ CreateChild
    \/ NextDir
    \/ WalkExternal
    \/ CheckValidity
    \/ CheckTestNameUniqueness
    \/ UniqueBuild
    \/ AssignBuild
    \/ ExportBuilds
    \/ ExportTest

Spec == Init /\ [][Next]_vars

\* ------------------------------------------------------------------ properties

NodeIds == 1..Len(nodes)

\* The nodes that generate tests.
TestNodes == {n \in NodeIds : generatesTests(nodes[n])}

\* The FirmwareBuild a node holds.
BuildOf(n) == builds[nodes[n].firmware_build]

\* determine_unique_firmware_builds has returned.
UniqueBuildsDetermined ==
    \/ pc \in {"export", "export_tests", "done"}
    \/ pc = "aborted" /\ output.opened

Count(seq, e) == Cardinality({k \in 1..Len(seq) : seq[k] = e})

\* The same modules, possibly in a different order.
SameModules(s, t) ==
    /\ Len(s) = Len(t)
    /\ \A k \in 1..Len(s) : Count(s, s[k]) = Count(t, s[k])

\* The same modules in any order, boards_url, boards_commit and sketch filename.
SameContent(fb1, fb2) ==
    /\ SameModules(fb1.modules, fb2.modules)
    /\ fb1.boards_url = fb2.boards_url
    /\ fb1.boards_commit = fb2.boards_commit
    /\ fb1.firmware_sketch.filename = fb2.firmware_sketch.filename

\* C1: after determine_unique_firmware_builds every node that generates
\* tests, whether its build is dedicated or inherited, has a
\* unique_firmware_build that is not None and has the digest of the node's
\* own firmware_build.
C1_EveryTestNodeHasUniqueBuild ==
    UniqueBuildsDetermined =>
        \A n \in TestNodes :
            /\ nodes[n].unique_firmware_build # 0
            /\ FirmwareBuildGetDigest(builds[nodes[n].unique_firmware_build])
                 = FirmwareBuildGetDigest(BuildOf(n))

\* C2: two nodes that generate tests and whose builds have the same modules
\* in any order, the same boards_url, boards_commit and sketch filename are
\* assigned the same unique build, with the same build identifier.
C2_SameContentSameUniqueBuild ==
    UniqueBuildsDetermined =>
        \A a \in TestNodes : \A b \in TestNodes \ {a} :
            SameContent(BuildOf(a), BuildOf(b)) =>
                /\ nodes[a].unique_firmware_build # 0
                /\ nodes[a].unique_firmware_build = nodes[b].unique_firmware_build
                /\ builds[nodes[a].unique_firmware_build].set_id >= 1

\* The nodes whose build the first loop looks at, in the order of the loop.
DedicatedTestNodes == {n \in TestNodes : nodes[n].has_dedicated_firmware}

\* The first loop of determine_unique_firmware_builds has seen the nodes
\* before this index.
SeenUpTo ==
    IF pc = "unique_builds" THEN i - 1
    ELSE IF pc = "assign_builds" \/ UniqueBuildsDetermined THEN Len(nodes)
    ELSE 0

\* C3 (state part): the identifiers of the entries of the digest map are
\* 1..n, each used once and only for the build of its entry; the entry of a
\* digest is the build of the first node with a dedicated build that
\* generates tests and has this digest, in the order of the loop.
C3_IdsAreSequential ==
    /\ \A k \in 1..Len(by_digest) :
         /\ builds[by_digest[k].build].set_id = k
         /\ \A l \in 1..Len(by_digest) : by_digest[l].digest = by_digest[k].digest => l = k
         /\ \E n \in DedicatedTestNodes :
              /\ n <= SeenUpTo
              /\ nodes[n].firmware_build = by_digest[k].build
              /\ FirmwareBuildGetDigest(BuildOf(n)) = by_digest[k].digest
              /\ \A m \in DedicatedTestNodes :
                   m < n => FirmwareBuildGetDigest(BuildOf(m)) # by_digest[k].digest
    /\ \A b \in 1..Len(builds) :
         builds[b].set_id # 0 =>
             /\ builds[b].set_id \in 1..Len(by_digest)
             /\ by_digest[builds[b].set_id].build = b
    /\ \A n \in DedicatedTestNodes :
         n <= SeenUpTo => getUnique(by_digest, FirmwareBuildGetDigest(BuildOf(n))) # 0
    /\ SeenUpTo > 0 => set_id = Len(by_digest) + 1

\* C3: the state part in every state, and an identifier once assigned to a
\* build is never changed.
C3_SequentialIds ==
    /\ []C3_IdsAreSequential
    /\ [][\A b \in 1..Len(builds) :
            builds[b].set_id # 0 => builds'[b].set_id = builds[b].set_id]_vars

\* A state where two builds or more got their identifiers and a node presented
\* a digest that was already in the map.
C3_Witness ==
    /\ pc = "assign_builds"
    /\ Len(by_digest) >= 2
    /\ Cardinality(DedicatedTestNodes) > Len(by_digest)

\* What a build is made of, and its digest when it has a sketch.
Content(fb) ==
    [modules |-> fb.modules, module_digests |-> fb.module_digests,
     firmware_sketch |-> fb.firmware_sketch,
     boards_url |-> fb.boards_url, boards_commit |-> fb.boards_commit,
     digest |-> IF fb.firmware_sketch.set THEN FirmwareBuildGetDigest(fb) ELSE Sha256(None)]

\* C4: no step changes the modules, the sketch, boards_url, boards_commit or
\* the digest of the build held by a node whose setup has completed: the
\* setup of another node works on its own clone.
C4_CloneIndependence ==
    [][\A n \in NodeIds :
          n <= Len(nodes') =>
              Content(builds'[nodes'[n].firmware_build]) = Content(BuildOf(n))]_vars

\* A node with a build of its own, whose modules are not those of its
\* parent's build, next to a sibling that shares the parent's build.
C4_Witness ==
    \E n \in NodeIds : \E m \in NodeIds \ {n} :
        /\ nodes[n].parent # 0
        /\ nodes[m].parent = nodes[n].parent
        /\ nodes[n].has_dedicated_firmware
        /\ BuildOf(n).modules # BuildOf(nodes[n].parent).modules
        /\ nodes[m].firmware_build = nodes[nodes[n].parent].firmware_build
        /\ m > n

\* The list without its k-th element.
Without(seq, k) == SubSeq(seq, 1, k - 1) \o SubSeq(seq, k + 1, Len(seq))

\* The two builds differ in one module's (url, commit, name), in a board
\* field or in the sketch filename.
Differ(fb1, fb2) ==
    \/ /\ Len(fb1.modules) = Len(fb2.modules)
       /\ \E k \in 1..Len(fb1.modules) : \E l \in 1..Len(fb2.modules) :
            /\ fb1.modules[k] # fb2.modules[l]
            /\ SameModules(Without(fb1.modules, k), Without(fb2.modules, l))
    \/ fb1.boards_url # fb2.boards_url
    \/ fb1.boards_commit # fb2.boards_commit
    \/ fb1.firmware_sketch.filename # fb2.firmware_sketch.filename

\* The builds with a sketch, the ones getDigest is defined for.
BuildsWithSketch == {b \in 1..Len(builds) : builds[b].firmware_sketch.set}

\* The digest of a build is the same for every order of its modules.
DigestIgnoresOrder ==
    \A b \in BuildsWithSketch :
        \A p \in Permutations(1..Len(builds[b].modules)) :
            FirmwareBuildGetDigest(
                [builds[b] EXCEPT !.modules =
                    [k \in 1..Len(builds[b].modules) |-> builds[b].modules[p[k]]]])
              = FirmwareBuildGetDigest(builds[b])

\* C5: the digest of a build with a sketch is the same for every order of
\* its modules, and two builds that differ in one module's (url, commit,
\* name), in a board field or in the sketch filename have different digests.
C5_DigestStability ==
    /\ DigestIgnoresOrder
    /\ \A b1 \in BuildsWithSketch : \A b2 \in BuildsWithSketch :
         Differ(builds[b1], builds[b2]) =>
             FirmwareBuildGetDigest(builds[b1]) # FirmwareBuildGetDigest(builds[b2])

\* The specification document of the node's directory gives a name.
SuppliesName(n) ==
    /\ find_unique_file(test_specification_pattern, directories[n])
    /\ ~directories[n].yaml.malformed
    /\ directories[n].yaml.name # None

GlobalName(n) == generateGlobalName(nodes, n)

\* C6 as claimed: a node other than the root whose directory gives no name
\* keeps the name object of its parent and has the global name of its parent.
C6_InheritsParentName ==
    \A n \in NodeIds :
        (nodes[n].parent # 0 /\ ~SuppliesName(n)) =>
            /\ nodes[n].name = nodes[nodes[n].parent].name
            /\ GlobalName(n) = GlobalName(nodes[n].parent)

\* C6 as amended: a node whose directory gives no name has a name object of
\* its own, attached at its own path, whose value is the last segment of the
\* path; if it is not the root its global name is the global name of its
\* parent, ".", and that segment, whatever names its ancestors have.
C6_DefaultNameIsOwnSegment ==
    \A n \in NodeIds :
        ~SuppliesName(n) =>
            /\ nodes[n].name = [set |-> TRUE, path |-> nodes[n].path,
                                value |-> <<nodes[n].path[Len(nodes[n].path)]>>]
            /\ nodes[n].parent # 0 =>
                 /\ nodes[n].name # nodes[nodes[n].parent].name
                 /\ GlobalName(n) = GlobalName(nodes[n].parent)
                        \o <<".", nodes[n].path[Len(nodes[n].path)]>>

\* A node without a name of its directory below a parent whose directory
\* gives one.
C6_Witness ==
    \E n \in NodeIds :
        /\ nodes[n].parent # 0
        /\ ~SuppliesName(n)
        /\ SuppliesName(nodes[n].parent)
        /\ nodes[n].name.value = <<"x">>
        /\ nodes[nodes[n].parent].name.value = <<"x">>

\* The nodes from the root to the node.
RECURSIVE RootPath(_)
RootPath(n) == IF nodes[n].parent = 0 THEN <<n>> ELSE Append(RootPath(nodes[n].parent), n)

\* The node is the root or its name is another object than its parent's.
DefinesName(n) ==
    nodes[n].parent = 0 \/ nodes[n].name # nodes[nodes[n].parent].name

\* The name values of the nodes, joined by ".".
RECURSIVE JoinNames(_)
JoinNames(ns) ==
    IF Len(ns) = 1 THEN nodes[ns[1]].name.value
    ELSE JoinNames(SubSeq(ns, 1, Len(ns) - 1)) \o <<".">> \o nodes[ns[Len(ns)]].name.value

\* C7: the global name of the root is its name value; that of another node
\* is its parent's global name when its name is its parent's name object, and
\* its parent's global name, "." and its name value otherwise, also when the
\* two values are the same text: the nodes that define a name on the way from
\* the root contribute one segment each, in this order.
C7_GlobalNameSegments ==
    \A n \in NodeIds :
        /\ GlobalName(n) = JoinNames(SelectSeq(RootPath(n), DefinesName))
        /\ nodes[n].parent = 0 => GlobalName(n) = nodes[n].name.value
        /\ (nodes[n].parent # 0 /\ ~DefinesName(n)) =>
               GlobalName(n) = GlobalName(nodes[n].parent)
        /\ (nodes[n].parent # 0 /\ DefinesName(n)) =>
               GlobalName(n) = GlobalName(nodes[n].parent) \o <<".">> \o nodes[n].name.value
        /\ (pc = "generateGlobalName" /\ n <= i) =>
               output.tests[n].test_name = JoinNames(SelectSeq(RootPath(n), DefinesName))

\* generateGlobalName on its own: trees of MaxNodes nodes in which every
\* node other than the root either has a name object of its own or holds
\* the name object of its parent, and the function applied node by node.
NameChoices == {"x", "y", "parent"}

NameTreePath(n) == IF n = 1 THEN <<"root">> ELSE PathJoin(<<"root">>, DirNames[n - 1])

RECURSIVE nameOf(_, _, _)
nameOf(parents, names, n) ==
    IF names[n] = "parent" THEN nameOf(parents, names, parents[n])
    ELSE [set |-> TRUE, value |-> <<names[n]>>, path |-> NameTreePath(n)]

NameTree(parents, names) ==
    [n \in 1..MaxNodes |->
        [NewTestNode(NameTreePath(n), parents[n]) EXCEPT
            !.name = nameOf(parents, names, n),
            !.children = SelectSeq([m \in 1..MaxNodes |-> m],
                                   LAMBDA m : parents[m] = n)]]

NameTrees ==
    {NameTree(parents, names) :
        parents \in {f \in [1..MaxNodes -> 0..MaxNodes] :
                        f[1] = 0 /\ \A n \in 2..MaxNodes : f[n] \in 1..(n - 1)},
        names \in {f \in [1..MaxNodes -> NameChoices] : f[1] # "parent"}}

InitNames ==
    /\ catalogue = {}
    /\ pc = "generateGlobalName"
    /\ nodes \in NameTrees
    /\ directories = <<>>
    /\ builds = <<>>
    /\ dirpath = 0
    /\ pending = <<>>
    /\ by_digest = <<>>
    /\ set_id = 0
    /\ i = 0
    /\ output = NoOutput
    /\ error = ""
    /\ orphan = NoTestNode

\* test_node.generateGlobalName() for the next node.
GenerateGlobalName ==
    /\ pc = "generateGlobalName"
    /\ i < Len(nodes)
    /\ i' = i + 1
    /\ output' = [output EXCEPT !.tests =
                     Append(@, [test_id |-> i + 1,
                                test_name |-> generateGlobalName(nodes, i + 1),
                                firmware_build_id |-> 0])]
    /\ UNCHANGED <<orphan, catalogue, pc, nodes, directories, builds, dirpath, pending,
                   by_digest, set_id, error>>

SpecNames == InitNames /\ [][GenerateGlobalName]_vars

\* A node that defines a name with the text of its parent's name and
\* contributes its segment, and a child of it that holds its name object and
\* contributes none; the function has been applied to both.
C7_Witness ==
    \E n \in NodeIds : \E m \in NodeIds :
        /\ nodes[n].parent # 0
        /\ DefinesName(n)
        /\ nodes[n].name.value = nodes[nodes[n].parent].name.value
        /\ nodes[m].parent = n
        /\ ~DefinesName(m)
        /\ i >= m
        /\ output.tests[n].test_name = GlobalName(nodes[n].parent) \o <<".">> \o nodes[n].name.value
        /\ output.tests[m].test_name = output.tests[n].test_name

\* check_test_name_uniqueness has returned.
NamesChecked ==
    \/ pc \in {"unique_builds", "assign_builds", "export", "export_tests", "done"}
    \/ pc = "aborted" /\ output.opened

\* Two nodes that generate tests have the same global name.
TestNameCollision ==
    \E a \in TestNodes : \E b \in TestNodes \ {a} : GlobalName(a) = GlobalName(b)

\* Two directories with the same parent give the same name.
SiblingsGiveSameName ==
    \E a \in NodeIds : \E b \in NodeIds \ {a} :
        /\ nodes[a].parent = nodes[b].parent
        /\ SuppliesName(a) /\ SuppliesName(b)
        /\ directories[a].yaml.name = directories[b].yaml.name

\* C8: when check_test_name_uniqueness has returned no two nodes that generate
\* tests have the same global name, and no two directories with the same
\* parent give the same name: with such directories the check ends the run
\* with the fatal error of the duplicate name.
C8_UniqueTestNames ==
    /\ NamesChecked => ~TestNameCollision /\ ~SiblingsGiveSameName
    /\ (pc = "check_test_name_uniqueness" /\ SiblingsGiveSameName) =>
           firstDuplicateName(nodes) # 0

\* The check has returned for a tree with two nodes that generate tests and
\* have the same name value at different places of the tree.
C8_Witness ==
    /\ pc = "unique_builds"
    /\ \E a \in TestNodes : \E b \in TestNodes \ {a} :
         nodes[a].name.value = nodes[b].name.value

\* C9: the fatal error of the duplicate name is raised if and only if two
\* nodes that generate tests have the same global name.
C9_OnlyTestNodesCollide ==
    /\ (pc = "aborted" /\ error = "SystemExit: same name") => TestNameCollision
    /\ NamesChecked => ~TestNameCollision

\* What a node that generates tests must have.
Complete(n) ==
    /\ nodes[n].name.set
    /\ nodes[n].description.set
    /\ nodes[n].python_driver.set
    /\ nodes[n].firmware_build # 0
    /\ BuildOf(n).firmware_sketch.set

\* The validity check has passed.
ValidityPassed == pc = "check_test_name_uniqueness" \/ NamesChecked

\* C10: recursivelyCheckValidity visits every node of the tree once, whatever
\* it finds; it returns false if and only if a node that generates tests
\* lacks a name, a description, a driver or a build with a sketch; it reports
\* no node that generates no test and every node that generates tests and
\* lacks something; the run goes on after the check only if it returned true.
C10_ValidatorComplete ==
    nodes # <<>> =>
        LET r == recursivelyCheckValidity(nodes, builds, 1)
        IN  /\ Len(r.visited) = Len(nodes)
            /\ {r.visited[k] : k \in 1..Len(r.visited)} = NodeIds
            /\ r.is_valid <=> \A n \in TestNodes : Complete(n)
            /\ {rep[1] : rep \in r.reports} = {n \in TestNodes : ~Complete(n)}
            /\ ValidityPassed => r.is_valid
            /\ (pc = "aborted" /\ error = "SystemExit: invalid testing setup") => ~r.is_valid

\* The run was ended by the validity check of a tree where two nodes that
\* generate tests lack something and a node that generates none does too.
C10_Witness ==
    /\ pc = "aborted"
    /\ error = "SystemExit: invalid testing setup"
    /\ Cardinality({n \in TestNodes : ~Complete(n)}) >= 2
    /\ \E n \in NodeIds \ TestNodes : ~Complete(n)

\* Something has been written: the cmake file was opened.
OutputStarted == output # NoOutput

\* The stages before the export have completed successfully: the walk has
\* ended, the tree is valid, no global name is found twice and the two loops
\* of determine_unique_firmware_builds have ended.
StagesCompleted ==
    /\ nodes # <<>>
    /\ toWalk = <<>>
    /\ recursivelyCheckValidity(nodes, builds, 1).is_valid
    /\ firstDuplicateName(nodes) = 0
    /\ SeenUpTo = Len(nodes)
    /\ pc \notin {"root", "walk", "check_test_name_uniqueness", "unique_builds",
                  "assign_builds"}

\* Nothing is written before the stages have completed.
ExportIsLastStage == OutputStarted => StagesCompleted

\* C11: the export starts only after the tree was built, validated, checked
\* for duplicate names and its builds were deduplicated, and on every run
\* that ends abnormally nothing, not even a part of the output, was written.
C11_StagedAllOrNothing ==
    /\ ExportIsLastStage
    /\ pc = "aborted" => ~OutputStarted

\* The directory of the node has a subdirectory __external__.
HasExternalDir(n) == isdir(external_specification_subdir_name, directories[n])

\* The path of a file in the subdirectory __external__ of the node.
InExternal(n, name) ==
    PathJoin(PathJoin(nodes[n].path, external_specification_subdir_name), name)

\* C12: a directory with a subdirectory __external__ and any other file or
\* directory that is not the test trigger gives no node, as its resolution
\* ends the run; a node whose directory has the subdirectory alone or with
\* the test trigger has the driver and the sketch that are in the
\* subdirectory.
C12_ExternalSpecification ==
    \A n \in NodeIds :
        HasExternalDir(n) =>
            /\ directories[n].files \subseteq {test_trigger_basename}
            /\ nodes[n].children = <<>>
            /\ test_driver_pattern \in directories[n].external.files =>
                   nodes[n].python_driver =
                       File(InExternal(n, test_driver_pattern), nodes[n])
            /\ firmware_sketch_pattern \in directories[n].external.files =>
                   BuildOf(n).firmware_sketch =
                       File(InExternal(n, firmware_sketch_pattern), nodes[n])

\* What the code does: the subdirectory __external__ changes nothing in the
\* resolution of a node, and __external__ as a file ends the run.
ExternalDirIgnored ==
    /\ \A n \in NodeIds :
          /\ ~find_file(external_specification_subdir_name, directories[n])
          /\ HasExternalDir(n) =>
                /\ nodes[n].python_driver.set =>
                      nodes[n].python_driver.filename # InExternal(n, test_driver_pattern)
                /\ BuildOf(n).firmware_sketch.set =>
                      BuildOf(n).firmware_sketch.filename
                          # InExternal(n, firmware_sketch_pattern)
    /\ error \notin {"TypeError", "SystemExit: additional files"}

BoardsFields == {"boards_url", "boards_commit"}

\* The specification document of the node's directory gives the field.
SuppliesBoards(n, field) ==
    /\ find_unique_file(test_specification_pattern, directories[n])
    /\ ~directories[n].yaml.malformed
    /\ directories[n].yaml[field] # None

\* The value of the field in the build the node holds when its setup begins.
CurrentBoards(n, field) ==
    IF nodes[n].parent = 0 THEN None ELSE BuildOf(nodes[n].parent)[field]

\* The directory of the node overrides nothing but the board fields.
OnlyBoards(n) ==
    /\ ~find_unique_file(firmware_sketch_pattern, directories[n])
    /\ directories[n].yaml.modules = <<>>

\* The run was ended by the AttributeError of a setup.
SetupRaisedAttributeError ==
    pc = "aborted" /\ error = "AttributeError" /\ ~OutputStarted

\* C13: the setup of a node whose specification document gives boards_url or
\* boards_commit never raises; the node ends with a build that has the value
\* given, a dedicated one if the value differs from the value of the build it
\* held, and the build of its parent if the value is the same and nothing
\* else is overridden.
C13_BoardSourceOverride ==
    /\ ~SetupRaisedAttributeError
    /\ \A n \in NodeIds : \A field \in BoardsFields :
          SuppliesBoards(n, field) =>
              /\ BuildOf(n)[field] = directories[n].yaml[field]
              /\ directories[n].yaml[field] # CurrentBoards(n, field) =>
                     nodes[n].has_dedicated_firmware
              /\ (/\ nodes[n].parent # 0
                  /\ OnlyBoards(n)
                  /\ \A f \in BoardsFields :
                        SuppliesBoards(n, f) =>
                            directories[n].yaml[f] = CurrentBoards(n, f)) =>
                     nodes[n].firmware_build = nodes[nodes[n].parent].firmware_build

\* What the code does: a node whose document gives a board field exists only
\* if the build it held had no value for the field, and then has a dedicated
\* build with the value given.
BoardsSetOnlyWhenUnset ==
    \A n \in NodeIds : \A field \in BoardsFields :
        SuppliesBoards(n, field) =>
            /\ CurrentBoards(n, field) = None
            /\ BuildOf(n)[field] = directories[n].yaml[field]
            /\ nodes[n].has_dedicated_firmware

\* The name stored for a module declared without a name.
Sentinel == <<"__NONE__">>

\* The modules the specification document of the node's directory declares.
DeclaredModules(n) ==
    IF find_unique_file(test_specification_pattern, directories[n])
       /\ ~directories[n].yaml.malformed
    THEN [k \in 1..Len(directories[n].yaml.modules) |->
             KaleidoscopeModule(directories[n].yaml.modules[k])]
    ELSE <<>>

\* The modules that are in the list.
Range(seq) == {seq[k] : k \in 1..Len(seq)}

\* Modules without a name to add to the builds reached.
UnnamedModules ==
    {KaleidoscopeModule(Module(url, None, None)) : url \in {<<"a">>, <<"b">>, <<"c">>}}

\* C14: a module declared without a name replaces no module: every module a
\* node's document declares without a name is in the build of the node, and
\* adding a module without a name to a build that does not contain it appends
\* it and leaves the modules of the build in place.
C14_UnnamedModulesAreKept ==
    /\ \A n \in NodeIds :
          \A m \in Range(DeclaredModules(n)) :
              m.name = Sentinel => m \in Range(BuildOf(n).modules)
    /\ \A b \in 1..Len(builds) : \A m \in UnnamedModules :
          ~containsModule(builds[b], m) =>
              addModule(builds[b], m).modules = Append(builds[b].modules, m)

\* What the code does: the name of a module is never None, so a module
\* stored with the sentinel as its name replaces the module with the
\* sentinel as its name, and no build has two modules of the same name.
SentinelIsAName ==
    \A b \in 1..Len(builds) :
        /\ \A k \in 1..Len(builds[b].modules) : builds[b].modules[k].name # None
        /\ Cardinality({k \in 1..Len(builds[b].modules) :
                           builds[b].modules[k].name = Sentinel}) <= 1

\* The tree is under construction, or the run ended in the setup of a node.
UnderConstruction ==
    \/ pc \in {"root", "walk"}
    \/ /\ pc = "aborted"
       /\ ~OutputStarted
       /\ error \notin {"SystemExit: invalid testing setup", "SystemExit: same name"}

\* No two modules of the build have the same defined name, and the digests
\* are those of the modules, index by index.
ModulesConsistent(fb) ==
    /\ Len(fb.module_digests) = Len(fb.modules)
    /\ \A k \in 1..Len(fb.modules) :
          /\ fb.module_digests[k] = ModuleGetDigest(fb.modules[k])
          /\ \A l \in 1..Len(fb.modules) :
                (fb.modules[k].name = fb.modules[l].name
                    /\ fb.modules[k].name # Sentinel) => k = l

\* Modules to add to the builds reached: with the names and urls of the
\* modules of the directories and with others.
AddedModules ==
    {KaleidoscopeModule(Module(<<"c">>, None, name)) :
        name \in {<<"core">>, <<"plugin">>, <<"b">>, None}}

\* The positions of the modules of the build that have the name.
Named(fb, name) == {k \in 1..Len(fb.modules) : fb.modules[k].name = name}

\* C15: in every build no two modules have the same defined name and
\* module_digests[i] is the digest of modules[i]; addModule with the name of
\* a module of the build puts the new module and its digest at the position
\* of that module and leaves the length and the other positions as they
\* are, with a name that no module of the build has it appends both at the
\* end, and the build it gives is consistent again.  addModule is applied to
\* the builds while the tree is under construction: no build gets a module
\* later.
C15_ModulesConsistent ==
    \A b \in 1..Len(builds) :
        /\ ModulesConsistent(builds[b])
        /\ \A m \in IF UnderConstruction THEN AddedModules ELSE {} :
              \A fb \in {builds[b]} : \A r \in {addModule(fb, m)} :
                  LET same == Named(fb, m.name)
                  IN  /\ ModulesConsistent(r)
                      /\ r = [fb EXCEPT !.modules = r.modules,
                                        !.module_digests = r.module_digests]
                      /\ same # {} =>
                            \E k \in same :
                                /\ \A l \in same : k <= l
                                /\ r.modules = [fb.modules EXCEPT ![k] = m]
                                /\ r.module_digests =
                                      [fb.module_digests EXCEPT ![k] = ModuleGetDigest(m)]
                      /\ same = {} =>
                            /\ r.modules = Append(fb.modules, m)
                            /\ r.module_digests =
                                  Append(fb.module_digests, ModuleGetDigest(m))

\* A node whose document declares a module with the name of the first of the
\* two modules of its parent's build and another url: its build has the new
\* module at the first position and the parent's second module at the second.
C15_Witness ==
    \E n \in NodeIds :
        /\ nodes[n].parent # 0
        /\ Len(BuildOf(nodes[n].parent).modules) = 2
        /\ Len(BuildOf(n).modules) = 2
        /\ BuildOf(n).modules[1] \in Range(DeclaredModules(n))
        /\ BuildOf(n).modules[1] # BuildOf(nodes[n].parent).modules[1]
        /\ BuildOf(n).modules[1].name = BuildOf(nodes[n].parent).modules[1].name
        /\ BuildOf(n).modules[2] = BuildOf(nodes[n].parent).modules[2]

\* The builds made at the node: the build of the root and the clones.
BuildsMadeAt(n) == {b \in 1..Len(builds) : builds[b].path = nodes[n].path}

\* The directory of the node overrides nothing of the build of its parent:
\* no sketch, no board field, and only modules whose digest the parent's
\* build has.
OverridesNothing(n) ==
    /\ ~find_unique_file(firmware_sketch_pattern, directories[n])
    /\ \A field \in BoardsFields : ~SuppliesBoards(n, field)
    /\ \A m \in Range(DeclaredModules(n)) :
          containsModule(BuildOf(nodes[n].parent), m)

\* The number of things the directory of the node overrides.
Overrides(n) ==
    {o \in {"sketch", "boards_url", "boards_commit", "modules"} :
        \/ o = "sketch" /\ find_unique_file(firmware_sketch_pattern, directories[n])
        \/ o \in BoardsFields /\ SuppliesBoards(n, o)
        \/ o = "modules" /\ \E m \in Range(DeclaredModules(n)) :
                                 ~containsModule(BuildOf(nodes[n].parent), m)}

\* C16: for every node, conditionallyCloneFirmwareBuild called twice gives
\* what it gives called once; called on a node that shares its build it
\* gives the node a new build with the same modules, sketch and board fields
\* and sets has_dedicated_firmware, and on a node with a dedicated build it
\* changes nothing.  At most one build was made at a node, whatever its
\* directory overrides, the only build made at the root is the one it was
\* created with, and a node whose directory overrides nothing has made none.
\* The function is applied to the nodes while the tree is under
\* construction: it is not called later.
C16_CloneOnce ==
    \A n \in NodeIds :
        /\ \A c \in IF UnderConstruction THEN {Ctx(nodes[n], builds)} ELSE {} :
              \A c1 \in {conditionallyCloneFirmwareBuild(c)} :
                  /\ conditionallyCloneFirmwareBuild(c1) = c1
                  /\ nodes[n].has_dedicated_firmware => c1 = c
                  /\ ~nodes[n].has_dedicated_firmware =>
                        /\ c1.node = [nodes[n] EXCEPT
                                          !.firmware_build = Len(builds) + 1,
                                          !.has_dedicated_firmware = TRUE]
                        /\ Len(c1.builds) = Len(builds) + 1
                        /\ SubSeq(c1.builds, 1, Len(builds)) = builds
                        /\ c1.builds[Len(builds) + 1] =
                              [BuildOf(n) EXCEPT !.path = nodes[n].path, !.set_id = 0]
        /\ \A made \in {BuildsMadeAt(n)} :
              /\ Cardinality(made) <= 1
              /\ nodes[n].parent = 0 => made = {nodes[n].firmware_build}
              /\ nodes[n].parent # 0 =>
                    /\ made # {} <=> nodes[n].has_dedicated_firmware
                    /\ OverridesNothing(n) =>
                          /\ made = {}
                          /\ nodes[n].firmware_build =
                                nodes[nodes[n].parent].firmware_build

\* A node whose directory overrides the sketch, both board fields and the
\* modules, with one build made at it, next to a node whose document declares
\* only a module of the parent's build and that made none.
C16_Witness ==
    \E n \in NodeIds : \E m \in NodeIds :
        /\ nodes[n].parent # 0
        /\ Cardinality(Overrides(n)) = 4
        /\ Cardinality(BuildsMadeAt(n)) = 1
        /\ nodes[m].parent # 0
        /\ DeclaredModules(m) # <<>>
        /\ OverridesNothing(m)
        /\ ~nodes[m].has_dedicated_firmware

\* The path goes through a directory __external__.
BelowExternal(path) ==
    \E k \in 1..Len(path) : path[k] = external_specification_subdir_name

\* Every node but the root was constructed after its parent, with its parent,
\* is once in the children of its parent and has a path that is its parent's
\* path and one name more; no node is at or below a directory __external__.
ParentsFirst ==
    \A n \in NodeIds :
        /\ nodes[n].parent = 0 <=> n = 1
        /\ ~BelowExternal(nodes[n].path)
        /\ n > 1 =>
              /\ nodes[n].parent \in 1..(n - 1)
              /\ Count(nodes[nodes[n].parent].children, n) = 1
              /\ \E name \in Range(DirNames) :
                    nodes[n].path = PathJoin(nodes[nodes[n].parent].path, name)
        /\ \A k \in 1..Len(nodes[n].children) :
              /\ nodes[n].children[k] \in NodeIds
              /\ nodes[nodes[n].children[k]].parent = n

\* C17: a node other than the root is constructed after its parent and with
\* it, is in the children of its parent and in the map; no TestNode other
\* than the root is ever constructed without a parent, and none for a
\* directory at or below __external__.
C17_ParentBeforeChild ==
    /\ ParentsFirst
    /\ ~orphan.set
    /\ \A b \in 1..Len(builds) : ~BelowExternal(builds[b].path)

\* The node is the other node or below it.
RECURSIVE InSubtree(_, _)
InSubtree(m, n) ==
    \/ m = n
    \/ nodes[m].parent # 0 /\ InSubtree(nodes[m].parent, n)

\* The nearest of the node and its ancestors that has has_dedicated_firmware.
RECURSIVE NearestDedicated(_)
NearestDedicated(n) ==
    IF nodes[n].has_dedicated_firmware \/ nodes[n].parent = 0 THEN n
    ELSE NearestDedicated(nodes[n].parent)

\* The tree has been constructed.
TreeConstructed == pc \notin {"root", "walk"} /\ nodes # <<>>

\* C18: the root has has_dedicated_firmware; a node other than the root
\* without it holds the very FirmwareBuild object its parent holds; the
\* object a node with it holds is held by no node outside the subtree of the
\* node; and the path of the build a node holds is the path of the nearest
\* of the node and its ancestors that has has_dedicated_firmware.
C18_Ownership ==
    nodes # <<>> =>
        /\ nodes[1].has_dedicated_firmware
        /\ \A n \in NodeIds :
              /\ nodes[n].firmware_build \in 1..Len(builds)
              /\ (nodes[n].parent # 0 /\ ~nodes[n].has_dedicated_firmware) =>
                    nodes[n].firmware_build = nodes[nodes[n].parent].firmware_build
              /\ nodes[n].has_dedicated_firmware =>
                    \A m \in NodeIds :
                        nodes[m].firmware_build = nodes[n].firmware_build =>
                            InSubtree(m, n)
              /\ BuildOf(n).path = nodes[NearestDedicated(n)].path

\* A constructed tree with a node other than the root that has a build of
\* its own, a child of it that holds this build, and a node outside its
\* subtree that holds the build of the root.
C18_Witness ==
    /\ TreeConstructed
    /\ \E n \in NodeIds : \E m \in NodeIds : \E o \in NodeIds :
          /\ nodes[n].parent # 0
          /\ nodes[n].has_dedicated_firmware
          /\ nodes[m].parent = n
          /\ ~nodes[m].has_dedicated_firmware
          /\ nodes[m].firmware_build = nodes[n].firmware_build
          /\ ~InSubtree(o, n)
          /\ nodes[o].parent # 0
          /\ nodes[o].firmware_build = nodes[1].firmware_build

====
